---- MODULE Spec2Model ----
(***************************************************************************)
(* Model of app.py: the in-memory price cache, the background refresher    *)
(* (refresh_all / _refresher), the two fetchers and the three query        *)
(* routes.  Steps are the atomic sections of the asyncio event loop: code  *)
(* between two suspension points runs as one action.                       *)
(*                                                                         *)
(* Strings that the code parses or normalises (the ?symbols= parameter,    *)
(* ALLOWED_STOCKS_ENV, ticker symbols) are sequences of one-character      *)
(* strings, so that split(","), strip() and upper() are computed.          *)
(***************************************************************************)
EXTENDS Integers, Sequences, FiniteSets, TLC

\* ------------------------------------------------------------ bounds
MaxPrice == 1
MaxClock == 2
MaxRounds == 2
MaxItems == 2
MaxLen == 3

Prices == 1..MaxPrice

\* ------------------------------------------------------------ strings
Chars == {"a", "B", "z", ",", " "}

\* str.upper() on one character
UpperChar(c) ==
    CASE c = "a" -> "A"
      [] c = "b" -> "B"
      [] c = "z" -> "Z"
      [] OTHER -> c

\* str.upper()
Upper(s) == [i \in 1..Len(s) |-> UpperChar(s[i])]

IsSpace(c) == c = " "

RECURSIVE LStrip(_)
LStrip(s) ==
    IF s # <<>> /\ IsSpace(Head(s)) THEN LStrip(Tail(s)) ELSE s

RECURSIVE RStrip(_)
RStrip(s) ==
    IF s # <<>> /\ IsSpace(s[Len(s)]) THEN RStrip(SubSeq(s, 1, Len(s) - 1)) ELSE s

\* str.strip()
Strip(s) == RStrip(LStrip(s))

\* str.split(","): always at least one field, "" gives [""]
RECURSIVE SplitAcc(_, _, _)
SplitAcc(s, cur, acc) ==
    IF s = <<>> THEN Append(acc, cur)
    ELSE IF Head(s) = "," THEN SplitAcc(Tail(s), <<>>, Append(acc, cur))
    ELSE SplitAcc(Tail(s), Append(cur, Head(s)), acc)

Split(s) == SplitAcc(s, <<>>, <<>>)

\* [f(x) for x in xs if p(x)] for the two list shapes the code uses
RECURSIVE SelectNonEmptyStripped(_)
SelectNonEmptyStripped(xs) ==
    IF xs = <<>> THEN <<>>
    ELSE IF Strip(Head(xs)) # <<>>
         THEN <<Upper(Strip(Head(xs)))>> \o SelectNonEmptyStripped(Tail(xs))
         ELSE SelectNonEmptyStripped(Tail(xs))

\* [s.strip().upper() for s in text.split(",") if s.strip()]
ParseSymbols(text) == SelectNonEmptyStripped(Split(text))

\* x in list
InList(x, xs) == \E i \in 1..Len(xs) : xs[i] = x

ListSet(xs) == {xs[i] : i \in 1..Len(xs)}

\* ------------------------------------------------------------ config
DEFAULT_STOCKS ==
    << <<"A","A","P","L">>, <<"M","S","F","T">>, <<"A","M","Z","N">>,
       <<"G","O","O","G","L">>, <<"M","E","T","A">>, <<"T","S","L","A">>,
       <<"N","V","D","A">>, <<"A","M","D">>, <<"N","F","L","X">>,
       <<"S","P","Y">>, <<"Q","Q","Q">>, <<"V","T","I">>, <<"I","W","M">>,
       <<"D","I","A">>, <<"B","R","K","-","B">>, <<"J","P","M">>,
       <<"K","O">>, <<"X","O","M">>, <<"U","N","H">>, <<"A","V","G","O">> >>

\* os.getenv("ALLOWED_STOCKS"): the deployment modelled sets " a, B"
ALLOWED_STOCKS_ENV == <<" ", "a", ",", " ", "B">>

ALLOWED_STOCKS ==
    IF ParseSymbols(ALLOWED_STOCKS_ENV) # <<>>
    THEN ParseSymbols(ALLOWED_STOCKS_ENV)
    ELSE DEFAULT_STOCKS

\* ------------------------------------------------------------ price maps
\* A PriceMap (dict) is a function from its set of keys to prices.
EmptyMap == [k \in {} |-> 0]

\* {k: v for k, v in data.items() if k in allowed}
FilterKeys(data, allowed) ==
    [k \in {x \in DOMAIN data : InList(x, allowed)} |-> data[k]]

\* d[k] = v
Put(d, k, v) == [x \in (DOMAIN d) \cup {k} |-> IF x = k THEN v ELSE d[x]]

\* ------------------------------------------------------------ providers
\* What the upstream providers may answer.  The providers are black boxes:
\* every response shape the parsing code distinguishes is drawn here.

\* One entry of quoteResponse.result: symbol is <<>> when missing or empty,
\* numeric is FALSE when regularMarketPrice is missing or not a number.
YahooSymbols == { <<"A">>, <<"b">>, <<"Z">>, <<>> }
YahooItems ==
    { [symbol |-> y, numeric |-> FALSE, price |-> 0] : y \in YahooSymbols }
    \cup [symbol : YahooSymbols, numeric : {TRUE}, price : Prices]

RECURSIVE SeqsUpTo(_, _)
SeqsUpTo(S, n) ==
    IF n = 0 THEN { <<>> }
    ELSE SeqsUpTo(S, n - 1) \cup
         { Append(q, x) : q \in { r \in SeqsUpTo(S, n - 1) : Len(r) = n - 1 }, x \in S }

YahooResponses == SeqsUpTo(YahooItems, MaxItems)

\* data["bitcoin"] / data["ethereum"]: absent, present without "usd", or priced
CoinEntries ==
    { [present |-> FALSE, usd |-> FALSE, price |-> 0],
      [present |-> TRUE, usd |-> FALSE, price |-> 0] }
    \cup { [present |-> TRUE, usd |-> TRUE, price |-> p] : p \in Prices }

CoinGeckoResponses == [bitcoin : CoinEntries, ethereum : CoinEntries]

\* ------------------------------------------------------------ fetchers
ChunkSize == 50

\* list(dict.fromkeys([s.upper() for s in symbols])): the uppercased
\* symbols in the order of their first occurrence
Uniq(symbols) ==
    LET up == [i \in 1..Len(symbols) |-> Upper(symbols[i])]
        first == { i \in 1..Len(symbols) : \A j \in 1..(i - 1) : up[j] # up[i] }
        rank(i) == Cardinality({ j \in first : j <= i })
    IN  [p \in 1..Cardinality(first) |-> up[CHOOSE i \in first : rank(i) = p]]

Min(a, b) == IF a <= b THEN a ELSE b

\* Mutation of Chunk: the slice is one element too long.
ChunkOverlap(uniq, i) == SubSeq(uniq, i + 1, Min(i + ChunkSize + 1, Len(uniq)))

\* uniq[i:i+50], i counted from 0
Chunk(uniq, i) == SubSeq(uniq, i + 1, Min(i + ChunkSize, Len(uniq)))

\* the loop over data["quoteResponse"]["result"] of one chunk
RECURSIVE MergeItems(_, _)
MergeItems(results, items) ==
    IF items = <<>> THEN results
    ELSE IF Head(items).symbol # <<>> /\ Head(items).numeric
         THEN MergeItems(Put(results, Upper(Head(items).symbol), Head(items).price),
                         Tail(items))
         ELSE MergeItems(results, Tail(items))

\* the body of fetch_coingecko_prices after r.json()
CoinGeckoParse(data) ==
    LET out1 == IF data.bitcoin.present /\ data.bitcoin.usd
                THEN Put(EmptyMap, "BTC", data.bitcoin.price) ELSE EmptyMap
    IN  IF data.ethereum.present /\ data.ethereum.usd
        THEN Put(out1, "ETH", data.ethereum.price) ELSE out1

\* ------------------------------------------------------------ state
VARIABLES
    cache,        \* the module-level cache dict; data_round / ts_round are
                  \* history fields: the refresh round that wrote data / updated_at
    cache_lock,   \* holder of cache_lock at a suspension point: "free" or a task
    clock,        \* the wall clock read by time.time()
    pc,           \* where _refresher is suspended
    round,        \* number of refresh_all calls started so far
    crypto_task,  \* the fetch_coingecko_prices() awaited by the current gather
    stocks_task,  \* the fetch_yahoo_quotes(symbols) awaited by the current gather
    gather_exc,   \* first exception the current gather received ("none" if none)
    orphans,      \* fetches still running after their gather raised
    log,          \* event the last step gave to logger.info / logger.error, if any
    succeeded,    \* history: has a fetch of the domain returned a result in a
                  \* round that ran to its end (was not cancelled)
    resp,         \* response of the query served by the last step, if any
    heap,         \* contents of the dict objects that cache or a reader refers to
    held          \* the dict of the last response that returned cache["crypto"]["data"]
                  \* itself, with the contents it had when it was returned

vars == << cache, cache_lock, clock, pc, round, crypto_task, stocks_task,
           gather_exc, orphans, log, succeeded, resp, heap, held >>

Domains == {"crypto", "stocks"}

\* A fetch awaited by gather: its state, and for fetch_yahoo_quotes its
\* argument (symbols), its locals (uniq, i, results) and the chunks it has
\* requested from the provider so far (sent).
NoTask == [state |-> "none", i |-> 0, results |-> EmptyMap,
           symbols |-> <<>>, uniq |-> <<>>, sent |-> <<>>]
NoResp == [op |-> "none"]
NoEvent == [event |-> "none"]

\* cache = {"crypto": {"data": {}, "updated_at": 0.0}, "stocks": {...}}
InitCache ==
    [d \in Domains |-> [data |-> EmptyMap, updated_at |-> 0,
                        data_round |-> 0, ts_round |-> 0]]

\* Dict objects.  Every fetch builds a new dict, so the dict bound to
\* cache[d]["data"] is named by the domain and the round that stored it
\* (round 0: the literal {} of the module).
Ref(c, d) == << d, c[d].data_round >>

\* no response holds a reference
NoRef == [obj |-> << "none", 0 >>]

\* the heap in which the dicts of cache c are the only objects
HeapOf(c) == [o \in { Ref(c, d) : d \in Domains } |-> c[o[1]].data]

\* Mutation of Rebind: the stored dict is cleared and filled with the new
\* prices instead of being replaced by the new dict.
RebindInPlace(h, c, d, results, r) ==
    [o \in DOMAIN h \cup {<< d, r >>} |->
        IF o = << d, r >> \/ o = Ref(c, d) THEN results ELSE h[o]]

\* cache[d]["data"] = results: the dict built by the fetch of round r becomes
\* reachable from cache; no existing dict is written to
Rebind(h, c, d, results, r) ==
    [o \in DOMAIN h \cup {<< d, r >>} |->
        IF o = << d, r >> THEN results ELSE h[o]]

\* dicts that neither cache c nor the reference hd refers to are freed
Collect(h, c, hd) ==
    [o \in DOMAIN h \cap ({ Ref(c, d) : d \in Domains } \cup {hd.obj}) |-> h[o]]

\* "crypto": cache["crypto"]["data"]: the response refers to the stored dict
Handout(h, c, d) == [obj |-> Ref(c, d), seen |-> h[Ref(c, d)]]

Init ==
    /\ heap = HeapOf(InitCache)
    /\ held = NoRef
    /\ cache = InitCache
    /\ cache_lock = "free"
    /\ clock = 1
    /\ pc = "startup_sleep"
    /\ round = 0
    /\ crypto_task = NoTask
    /\ stocks_task = NoTask
    /\ gather_exc = "none"
    /\ orphans = {}
    /\ log = NoEvent
    /\ succeeded = [d \in Domains |-> FALSE]
    /\ resp = NoResp

\* ------------------------------------------------------------ refresher
\* symbols = symbols or ALLOWED_STOCKS
RefreshArg(symbols) == IF symbols = <<>> THEN ALLOWED_STOCKS ELSE symbols

\* _refresher calls refresh_all() without argument
RefreshSymbols == RefreshArg(<<>>)

\* fetch_yahoo_quotes(symbols) up to its first suspension: the early return
\* for an empty list, else uniq and the request of the first chunk
FetchBegin(symbols) ==
    IF symbols = <<>>
    THEN [NoTask EXCEPT !.state = "ok"]
    ELSE LET uniq == Uniq(symbols)
         IN  [NoTask EXCEPT !.state = "running",
                            !.symbols = symbols,
                            !.uniq = uniq,
                            !.sent = << Chunk(uniq, 0) >>]

\* Mutation of FetchStep: every chunk starts from an empty results dict.
FetchStepLastOnly(task, items) ==
    LET next == task.i + ChunkSize
        done == next >= Len(task.uniq)
    IN  [task EXCEPT !.state = IF done THEN "ok" ELSE "running",
                     !.i = next,
                     !.results = MergeItems(EmptyMap, items),
                     !.sent = IF done THEN @ ELSE Append(@, Chunk(task.uniq, next))]

\* one pass of the chunk loop: the response of chunk i is merged into
\* results; the next chunk is requested, or the function returns
FetchStep(task, items) ==
    LET next == task.i + ChunkSize
        done == next >= Len(task.uniq)
    IN  [task EXCEPT !.state = IF done THEN "ok" ELSE "running",
                     !.i = next,
                     !.results = MergeItems(task.results, items),
                     !.sent = IF done THEN @ ELSE Append(@, Chunk(task.uniq, next))]

\* Mutation of refresh_all_begin: cache_lock is taken before the gather and
\* held across the network calls.
refresh_all_begin_locked ==
    /\ round < MaxRounds
    /\ cache_lock = "free"
    /\ round' = round + 1
    /\ pc' = "gather"
    /\ crypto_task' = [NoTask EXCEPT !.state = "running"]
    /\ stocks_task' = FetchBegin(RefreshSymbols)
    /\ gather_exc' = "none"
    /\ cache_lock' = "refresher"
    /\ resp' = NoResp
    /\ log' = NoEvent
    /\ UNCHANGED << cache, clock, orphans, succeeded >>
    /\ UNCHANGED << heap, held >>

\* refresh_all up to its first suspension: gather starts both fetchers
refresh_all_begin ==
    /\ round < MaxRounds
    /\ round' = round + 1
    /\ pc' = "gather"
    /\ crypto_task' = [NoTask EXCEPT !.state = "running"]
    /\ stocks_task' = FetchBegin(RefreshSymbols)
    /\ gather_exc' = "none"
    /\ cache_lock' = cache_lock
    /\ resp' = NoResp
    /\ log' = NoEvent
    /\ UNCHANGED << cache, clock, orphans, succeeded >>
    /\ UNCHANGED << heap, held >>

\* await asyncio.sleep(1) returns, the loop makes its first call
RefresherStartup ==
    /\ pc = "startup_sleep"
    /\ refresh_all_begin

\* await asyncio.sleep(REFRESH_INTERVAL_SEC) returns, the loop calls again
RefresherTick ==
    /\ pc = "interval_sleep"
    /\ refresh_all_begin

\* fetch_coingecko_prices returns
CryptoFetchOk ==
    /\ crypto_task.state = "running"
    /\ \E data \in CoinGeckoResponses :
         crypto_task' = [crypto_task EXCEPT !.state = "ok",
                                            !.results = CoinGeckoParse(data)]
    /\ resp' = NoResp
    /\ log' = NoEvent
    /\ UNCHANGED << cache, cache_lock, clock, pc, round, stocks_task,
                    gather_exc, orphans, succeeded >>
    /\ UNCHANGED << heap, held >>

\* client.get / raise_for_status / r.json() / float() raises
CryptoFetchFail ==
    /\ crypto_task.state = "running"
    /\ crypto_task' = [crypto_task EXCEPT !.state = "failed"]
    /\ gather_exc' = IF gather_exc = "none" THEN "crypto" ELSE gather_exc
    /\ resp' = NoResp
    /\ log' = NoEvent
    /\ UNCHANGED << cache, cache_lock, clock, pc, round, stocks_task,
                    orphans, succeeded >>
    /\ UNCHANGED << heap, held >>

\* one pass of the chunk loop of fetch_yahoo_quotes: the request of chunk i
\* answers; the function returns after the last chunk
StocksChunkOk ==
    /\ stocks_task.state = "running"
    /\ \E items \in YahooResponses :
         stocks_task' = FetchStep(stocks_task, items)
    /\ resp' = NoResp
    /\ log' = NoEvent
    /\ UNCHANGED << cache, cache_lock, clock, pc, round, crypto_task,
                    gather_exc, orphans, succeeded >>
    /\ UNCHANGED << heap, held >>

\* Mutation of StocksChunkFail: the failure of a chunk is swallowed and the
\* function returns what the earlier chunks gave.
StocksChunkFailPartial ==
    /\ stocks_task.state = "running"
    /\ stocks_task' = [stocks_task EXCEPT !.state = "ok"]
    /\ gather_exc' = gather_exc
    /\ resp' = NoResp
    /\ log' = NoEvent
    /\ UNCHANGED << cache, cache_lock, clock, pc, round, crypto_task,
                    orphans, succeeded >>
    /\ UNCHANGED << heap, held >>

\* the request of a chunk raises: the whole fetch raises
StocksChunkFail ==
    /\ stocks_task.state = "running"
    /\ stocks_task' = [stocks_task EXCEPT !.state = "failed"]
    /\ gather_exc' = IF gather_exc = "none" THEN "stocks" ELSE gather_exc
    /\ resp' = NoResp
    /\ log' = NoEvent
    /\ UNCHANGED << cache, cache_lock, clock, pc, round, crypto_task,
                    orphans, succeeded >>
    /\ UNCHANGED << heap, held >>

\* Mutation of ApplyRound: the assignment of cache["stocks"]["updated_at"]
\* is missing.
ApplyRoundTorn(c, crypto_prices, stock_prices, t1, t2, r) ==
    [c EXCEPT !["crypto"] = [data |-> crypto_prices, updated_at |-> t1,
                             data_round |-> r, ts_round |-> r],
              !["stocks"] = [data |-> stock_prices, updated_at |-> @.updated_at,
                             data_round |-> r, ts_round |-> @.ts_round]]

\* Mutation of ApplyRound: the fetch results are merged into the stored
\* dicts (dict.update) instead of replacing them.
ApplyRoundMerge(c, crypto_prices, stock_prices, t1, t2, r) ==
    LET merge(old, new) == [k \in DOMAIN old \cup DOMAIN new |->
                              IF k \in DOMAIN new THEN new[k] ELSE old[k]]
    IN  [c EXCEPT !["crypto"] = [data |-> merge(@.data, crypto_prices), updated_at |-> t1,
                                 data_round |-> r, ts_round |-> r],
                  !["stocks"] = [data |-> merge(@.data, stock_prices), updated_at |-> t2,
                                 data_round |-> r, ts_round |-> r]]

\* the four assignments under cache_lock; t1 and t2 are the two time.time()
\* readings, r the round (history)
ApplyRound(c, crypto_prices, stock_prices, t1, t2, r) ==
    [c EXCEPT !["crypto"] = [data |-> crypto_prices, updated_at |-> t1,
                             data_round |-> r, ts_round |-> r],
              !["stocks"] = [data |-> stock_prices, updated_at |-> t2,
                             data_round |-> r, ts_round |-> r]]

\* gather returns both results: refresh_all takes the lock, stores both
\* domains, releases the lock, logs refresh_success and returns; the loop
\* goes to sleep.  The field replaced of the log record is history: the
\* keys of the dicts the round replaced.  No suspension point lies in between: acquiring a free
\* asyncio.Lock does not yield.
GatherReturn ==
    /\ pc = "gather"
    /\ crypto_task.state = "ok"
    /\ stocks_task.state = "ok"
    /\ cache_lock = "free"
    /\ \E t2 \in clock..MaxClock :
         /\ cache' = ApplyRound(cache, crypto_task.results, stocks_task.results,
                                clock, t2, round)
         /\ clock' = t2
    /\ cache_lock' = "free"
    /\ log' = [event |-> "refresh_success", round |-> round,
                crypto_count |-> Cardinality(DOMAIN crypto_task.results),
                stock_count |-> Cardinality(DOMAIN stocks_task.results),
                replaced |-> [d \in Domains |-> DOMAIN cache[d].data]]
    /\ pc' = "interval_sleep"
    /\ crypto_task' = NoTask
    /\ stocks_task' = NoTask
    /\ gather_exc' = "none"
    /\ resp' = NoResp
    /\ UNCHANGED << round, orphans, succeeded >>
    /\ heap' = Collect(Rebind(Rebind(heap, cache, "crypto", crypto_task.results, round),
                               cache, "stocks", stocks_task.results, round),
                        cache', held)
    /\ held' = held

\* the fetches of the current gather that are still running
Running ==
    (IF crypto_task.state = "running"
     THEN {[domain |-> "crypto", round |-> round, i |-> 0, n |-> 0]} ELSE {})
    \cup
    (IF stocks_task.state = "running"
     THEN {[domain |-> "stocks", round |-> round, i |-> stocks_task.i,
            n |-> Len(stocks_task.uniq)]} ELSE {})

\* Mutation of GatherRaise: the error handler resets the snapshot of the
\* domain whose fetch raised.
GatherRaiseReset ==
    /\ pc = "gather"
    /\ gather_exc # "none"
    /\ cache' = [cache EXCEPT ![gather_exc] = InitCache[gather_exc]]
    /\ log' = [event |-> "refresh_error", round |-> round, error |-> gather_exc]
    /\ orphans' = orphans \cup Running
    /\ pc' = "interval_sleep"
    /\ crypto_task' = NoTask
    /\ stocks_task' = NoTask
    /\ gather_exc' = "none"
    /\ succeeded' = [succeeded EXCEPT
                        !["crypto"] = @ \/ crypto_task.state = "ok",
                        !["stocks"] = @ \/ stocks_task.state = "ok"]
    /\ resp' = NoResp
    /\ UNCHANGED << cache_lock, clock, round >>
    /\ heap' = [o \in DOMAIN heap \cup { Ref(cache', d) : d \in Domains } |->
                 IF o \in DOMAIN heap THEN heap[o] ELSE cache'[o[1]].data]
    /\ held' = held

\* Mutation of GatherRaise: the result of a fetch that returned is stored
\* although the other fetch raised.
GatherRaiseApplyOk ==
    /\ pc = "gather"
    /\ gather_exc # "none"
    /\ cache' = [d \in Domains |->
                   LET task == IF d = "crypto" THEN crypto_task ELSE stocks_task
                   IN  IF task.state = "ok"
                       THEN [data |-> task.results, updated_at |-> clock,
                             data_round |-> round, ts_round |-> round]
                       ELSE cache[d]]
    /\ log' = [event |-> "refresh_error", round |-> round, error |-> gather_exc]
    /\ orphans' = orphans \cup Running
    /\ pc' = "interval_sleep"
    /\ crypto_task' = NoTask
    /\ stocks_task' = NoTask
    /\ gather_exc' = "none"
    /\ succeeded' = [succeeded EXCEPT
                        !["crypto"] = @ \/ crypto_task.state = "ok",
                        !["stocks"] = @ \/ stocks_task.state = "ok"]
    /\ resp' = NoResp
    /\ UNCHANGED << cache_lock, clock, round >>
    /\ heap' = [o \in DOMAIN heap \cup { Ref(cache', d) : d \in Domains } |->
                 IF o \in DOMAIN heap THEN heap[o] ELSE cache'[o[1]].data]
    /\ held' = held

\* Mutation of GatherRaise: the handler calls the fetcher that raised once
\* more within the round instead of ending the round.
GatherRaiseRetry ==
    /\ pc = "gather"
    /\ gather_exc # "none"
    /\ crypto_task' = IF crypto_task.state = "failed"
                      THEN [NoTask EXCEPT !.state = "running"] ELSE crypto_task
    /\ stocks_task' = IF stocks_task.state = "failed"
                      THEN FetchBegin(RefreshSymbols) ELSE stocks_task
    /\ gather_exc' = "none"
    /\ log' = NoEvent
    /\ resp' = NoResp
    /\ UNCHANGED << cache, cache_lock, clock, pc, round, orphans, succeeded >>
    /\ UNCHANGED << heap, held >>

\* Mutation of GatherRaise: refresh_all has no except clause, the exception
\* leaves _refresher and ends the task.
GatherRaiseCrash ==
    /\ pc = "gather"
    /\ gather_exc # "none"
    /\ log' = NoEvent
    /\ orphans' = orphans \cup Running
    /\ pc' = "crashed"
    /\ crypto_task' = NoTask
    /\ stocks_task' = NoTask
    /\ gather_exc' = "none"
    /\ succeeded' = [succeeded EXCEPT
                        !["crypto"] = @ \/ crypto_task.state = "ok",
                        !["stocks"] = @ \/ stocks_task.state = "ok"]
    /\ resp' = NoResp
    /\ UNCHANGED << cache, cache_lock, clock, round >>
    /\ UNCHANGED << heap, held >>

\* gather raises the first exception of its children: except Exception logs
\* refresh_error, refresh_all returns, the loop goes to sleep.  gather does
\* not cancel the other child: it keeps running and its result is dropped.
GatherRaise ==
    /\ pc = "gather"
    /\ gather_exc # "none"
    /\ log' = [event |-> "refresh_error", round |-> round, error |-> gather_exc]
    /\ orphans' = orphans \cup Running
    /\ pc' = "interval_sleep"
    /\ crypto_task' = NoTask
    /\ stocks_task' = NoTask
    /\ gather_exc' = "none"
    /\ succeeded' = [succeeded EXCEPT
                        !["crypto"] = @ \/ crypto_task.state = "ok",
                        !["stocks"] = @ \/ stocks_task.state = "ok"]
    /\ resp' = NoResp
    /\ UNCHANGED << cache, cache_lock, clock, round >>
    /\ UNCHANGED << heap, held >>

\* logger.info({"event":"shutdown"}), with the await the task was cancelled
\* at and whether a fetch of its gather was running then
ShutdownEvent ==
    [event |-> "shutdown", round |-> round, during |-> pc,
     in_flight |-> (Running # {})]

\* Mutation of on_shutdown: a gather whose fetches have both returned is
\* applied before the task ends.
on_shutdown_drain ==
    /\ pc # "cancelled"
    /\ pc' = "cancelled"
    /\ cache' = IF pc = "gather" /\ crypto_task.state = "ok" /\ stocks_task.state = "ok"
                THEN ApplyRound(cache, crypto_task.results, stocks_task.results,
                                clock, clock, round)
                ELSE cache
    /\ crypto_task' = NoTask
    /\ stocks_task' = NoTask
    /\ gather_exc' = "none"
    /\ resp' = NoResp
    /\ log' = ShutdownEvent
    /\ UNCHANGED << cache_lock, clock, round, orphans, succeeded >>
    /\ heap' = IF cache' = cache THEN heap
               ELSE Collect(Rebind(Rebind(heap, cache, "crypto", crypto_task.results, round),
                                   cache, "stocks", stocks_task.results, round),
                            cache', held)
    /\ held' = held

\* Mutation of on_shutdown: the CancelledError raised at the gather is caught
\* by the handler of refresh_all like a failed fetch, and the loop goes on.
on_shutdown_swallowed ==
    /\ pc # "cancelled"
    /\ pc' = IF pc = "gather" THEN "interval_sleep" ELSE "cancelled"
    /\ crypto_task' = NoTask
    /\ stocks_task' = NoTask
    /\ gather_exc' = "none"
    /\ resp' = NoResp
    /\ log' = IF pc = "gather"
              THEN [event |-> "refresh_error", round |-> round, error |-> "cancelled"]
              ELSE ShutdownEvent
    /\ UNCHANGED << cache, cache_lock, clock, round, orphans, succeeded >>
    /\ UNCHANGED << heap, held >>

\* on_shutdown: _bg_task.cancel().  CancelledError is raised at the await
\* the task is suspended on (a sleep or the gather, whose children are
\* cancelled with it); it is not an Exception, so refresh_all does not
\* catch it and the loop ends.
on_shutdown ==
    /\ pc # "cancelled"
    /\ pc' = "cancelled"
    /\ crypto_task' = NoTask
    /\ stocks_task' = NoTask
    /\ gather_exc' = "none"
    /\ resp' = NoResp
    /\ log' = ShutdownEvent
    /\ UNCHANGED << cache, cache_lock, clock, round, orphans, succeeded >>
    /\ UNCHANGED << heap, held >>

\* a fetch_coingecko_prices left behind by a gather that raised completes
OrphanCryptoDone ==
    /\ \E o \in orphans, ok \in BOOLEAN :
         /\ o.domain = "crypto"
         /\ orphans' = orphans \ {o}
         /\ succeeded' = [succeeded EXCEPT !["crypto"] = @ \/ ok]
    /\ resp' = NoResp
    /\ log' = NoEvent
    /\ UNCHANGED << cache, cache_lock, clock, pc, round, crypto_task,
                    stocks_task, gather_exc >>
    /\ UNCHANGED << heap, held >>

\* a fetch_yahoo_quotes left behind by a gather that raised makes one pass
\* of its chunk loop
OrphanStocksChunk ==
    /\ \E o \in orphans, ok \in BOOLEAN :
         LET next == o.i + ChunkSize
             done == next >= o.n
         IN  /\ o.domain = "stocks"
             /\ orphans' = IF ok /\ ~done
                           THEN (orphans \ {o}) \cup {[o EXCEPT !.i = next]}
                           ELSE orphans \ {o}
             /\ succeeded' = [succeeded EXCEPT !["stocks"] = @ \/ (ok /\ done)]
    /\ resp' = NoResp
    /\ log' = NoEvent
    /\ UNCHANGED << cache, cache_lock, clock, pc, round, crypto_task,
                    stocks_task, gather_exc >>
    /\ UNCHANGED << heap, held >>

\* wall-clock time passes
Tick ==
    /\ clock < MaxClock
    /\ clock' = clock + 1
    /\ resp' = NoResp
    /\ log' = NoEvent
    /\ UNCHANGED << cache, cache_lock, pc, round, crypto_task, stocks_task,
                    gather_exc, orphans, succeeded >>
    /\ UNCHANGED << heap, held >>

\* ------------------------------------------------------------ queries
\* The symbols query parameter: omitted (None) or a string.
Omitted == [present |-> FALSE, text |-> <<>>]
Given(text) == [present |-> TRUE, text |-> text]

\* Python truth value of Optional[str]: None and "" are false
Truthy(symbols) == symbols.present /\ symbols.text # <<>>

\* a or b, for numbers
Or(a, b) == IF a # 0 THEN a ELSE b

\* [s for s in req if s in allowed]
RECURSIVE SelectIn(_, _)
SelectIn(req, allowed) ==
    IF req = <<>> THEN <<>>
    ELSE IF InList(Head(req), allowed)
         THEN <<Head(req)>> \o SelectIn(Tail(req), allowed)
         ELSE SelectIn(Tail(req), allowed)

\* history carried by a response: the rounds that wrote what it reports
Src(snapshot) == [data |-> snapshot.data_round, updated_at |-> snapshot.ts_round]

Max(a, b) == IF a >= b THEN a ELSE b

\* Mutation of get_all_prices: the combined updated_at is the newer of the
\* two timestamps.
get_all_prices_newest(c, now) ==
    [updated_at |-> Or(Max(c["crypto"].updated_at, c["stocks"].updated_at), now),
     crypto |-> c["crypto"].data,
     stocks |-> FilterKeys(c["stocks"].data, ALLOWED_STOCKS),
     src |-> [crypto |-> Src(c["crypto"]), stocks |-> Src(c["stocks"])]]

\* Mutation of get_all_prices: the stocks map is returned as cached.
get_all_prices_unfiltered(c, now) ==
    [updated_at |-> Or(Min(c["crypto"].updated_at, c["stocks"].updated_at), now),
     crypto |-> c["crypto"].data,
     stocks |-> c["stocks"].data,
     src |-> [crypto |-> Src(c["crypto"]), stocks |-> Src(c["stocks"])]]

\* GET /v1/prices; now is the time.time() reading
get_all_prices(c, now) ==
    [updated_at |-> Or(Min(c["crypto"].updated_at, c["stocks"].updated_at), now),
     crypto |-> c["crypto"].data,
     stocks |-> FilterKeys(c["stocks"].data, ALLOWED_STOCKS),
     src |-> [crypto |-> Src(c["crypto"]), stocks |-> Src(c["stocks"])]]

\* Mutation of get_crypto: updated_at falls back to time.time() as in
\* get_all_prices.
get_crypto_or_now(c) ==
    [updated_at |-> Or(c["crypto"].updated_at, clock),
     crypto |-> c["crypto"].data,
     src |-> [crypto |-> Src(c["crypto"])]]

\* GET /v1/crypto
get_crypto(c) ==
    [updated_at |-> c["crypto"].updated_at,
     crypto |-> c["crypto"].data,
     src |-> [crypto |-> Src(c["crypto"])]]

\* Mutation of get_stocks_body: the requested symbols are not filtered to
\* ALLOWED_STOCKS.
get_stocks_body_unfiltered(locked, after, symbols) ==
    LET data == locked["stocks"].data
        req == ParseSymbols(symbols.text)
    IN  [updated_at |-> after["stocks"].updated_at,
         stocks |-> IF Truthy(symbols)
                    THEN FilterKeys(data, req)
                    ELSE FilterKeys(data, ALLOWED_STOCKS),
         src |-> [stocks |-> [data |-> locked["stocks"].data_round,
                              updated_at |-> after["stocks"].ts_round]]]

\* GET /v1/stocks.  locked is the cache as it is inside "async with
\* cache_lock", after the cache as it is at the return statement.
get_stocks_body(locked, after, symbols) ==
    LET data == locked["stocks"].data
        req == SelectIn(ParseSymbols(symbols.text), ALLOWED_STOCKS)
    IN  [updated_at |-> after["stocks"].updated_at,
         stocks |-> IF Truthy(symbols)
                    THEN FilterKeys(data, req)
                    ELSE FilterKeys(data, ALLOWED_STOCKS),
         src |-> [stocks |-> [data |-> locked["stocks"].data_round,
                              updated_at |-> after["stocks"].ts_round]]]

\* The handler has no suspension point after the lock is released (leaving
\* "async with" on an asyncio.Lock does not yield), so both reads see the
\* same cache.
get_stocks(c, symbols) == get_stocks_body(c, c, symbols)

\* A route handler runs to its response in one step once it has the lock.
GetAllPrices ==
    /\ cache_lock = "free"
    /\ resp' = [op |-> "get_all_prices", body |-> get_all_prices(cache, clock)]
    /\ log' = NoEvent
    /\ UNCHANGED << cache, cache_lock, clock, pc, round, crypto_task,
                    stocks_task, gather_exc, orphans, succeeded >>
    /\ held' = Handout(heap, cache, "crypto")
    /\ heap' = Collect(heap, cache, held')

GetCrypto ==
    /\ cache_lock = "free"
    /\ resp' = [op |-> "get_crypto", body |-> get_crypto(cache)]
    /\ log' = NoEvent
    /\ UNCHANGED << cache, cache_lock, clock, pc, round, crypto_task,
                    stocks_task, gather_exc, orphans, succeeded >>
    /\ held' = Handout(heap, cache, "crypto")
    /\ heap' = Collect(heap, cache, held')

\* the requests served while the refresher runs
Requests ==
    { Omitted, Given(<<>>), Given(<<"a">>), Given(<<"z", ",", " ", "B">>) }

GetStocks ==
    /\ cache_lock = "free"
    /\ \E symbols \in Requests :
         resp' = [op |-> "get_stocks", symbols |-> symbols,
                  body |-> get_stocks(cache, symbols)]
    /\ log' = NoEvent
    /\ UNCHANGED << cache, cache_lock, clock, pc, round, crypto_task,
                    stocks_task, gather_exc, orphans, succeeded >>
    /\ UNCHANGED << heap, held >>

\* ------------------------------------------------------------ specification
Next ==
    \/ RefresherStartup
    \/ RefresherTick
    \/ CryptoFetchOk
    \/ CryptoFetchFail
    \/ StocksChunkOk
    \/ StocksChunkFail
    \/ GatherReturn
    \/ GatherRaise
    \/ on_shutdown
    \/ OrphanCryptoDone
    \/ OrphanStocksChunk
    \/ Tick
    \/ GetAllPrices
    \/ GetCrypto
    \/ GetStocks

Spec == Init /\ [][Next]_vars

\* ------------------------------------------------------------ query specification
\* The /v1/stocks handler as a function of the cache and of its parameter:
\* the cache is any state one refresh round can leave, the parameter any
\* string over Chars of length at most MaxLen, or omitted.
Strings == SeqsUpTo(Chars, MaxLen)

SymbolsParams == {Omitted} \cup { Given(text) : text \in Strings }

RoundCaches ==
    { ApplyRound(InitCache, CoinGeckoParse(data), MergeItems(EmptyMap, items),
                 1, t2, 1) :
        data \in CoinGeckoResponses, items \in YahooResponses, t2 \in 1..MaxClock }

InitQ ==
    /\ cache \in {InitCache} \cup RoundCaches
    /\ heap = HeapOf(cache)
    /\ held = NoRef
    /\ cache_lock = "free"
    /\ clock = IF cache = InitCache THEN 1 ELSE cache["stocks"].updated_at
    /\ pc = IF cache = InitCache THEN "startup_sleep" ELSE "interval_sleep"
    /\ round = IF cache = InitCache THEN 0 ELSE 1
    /\ crypto_task = NoTask
    /\ stocks_task = NoTask
    /\ gather_exc = "none"
    /\ orphans = {}
    /\ log = NoEvent
    /\ succeeded = [d \in Domains |-> cache # InitCache]
    /\ resp = NoResp

GetStocksAny ==
    /\ cache_lock = "free"
    /\ resp = NoResp
    /\ \E symbols \in SymbolsParams :
         resp' = [op |-> "get_stocks", symbols |-> symbols,
                  body |-> get_stocks(cache, symbols)]
    /\ log' = NoEvent
    /\ UNCHANGED << cache, cache_lock, clock, pc, round, crypto_task,
                    stocks_task, gather_exc, orphans, succeeded >>
    /\ UNCHANGED << heap, held >>

NextQ == GetStocksAny

QuerySpec == InitQ /\ [][NextQ]_vars

\* ------------------------------------------------------------ batch specification
\* refresh_all(symbols) for symbol lists around the chunk boundaries: a
\* deployment whose symbol list is long enough for several requests.
MaxSymbols == 120
MaxDups == 2
SymWidth == 5

UpperDigits == << "A", "B", "Z" >>
LowerDigits == << "a", "b", "z" >>

RECURSIVE Pow3(_)
Pow3(e) == IF e = 0 THEN 1 ELSE 3 * Pow3(e - 1)

\* the k-th ticker: k written with SymWidth letters, in lower or upper case
Sym(k, lower) ==
    [j \in 1..SymWidth |->
        (IF lower THEN LowerDigits ELSE UpperDigits)[((k \div Pow3(SymWidth - j)) % 3) + 1]]

\* n distinct tickers in alternating case, and d of them once more in the
\* other case, before or after the list
SymbolList(n, d, front) ==
    LET list == [k \in 1..n |-> Sym(k, k % 2 = 0)]
        dups == [k \in 1..d |-> Sym(k, k % 2 = 1)]
    IN  IF front THEN dups \o list ELSE list \o dups

BatchSizes ==
    { 0, 1, ChunkSize - 1, ChunkSize, ChunkSize + 1,
      2 * ChunkSize, 2 * ChunkSize + 1, MaxSymbols }

SymbolLists ==
    { SymbolList(n, d, front) :
        n \in BatchSizes, d \in 0..MaxDups, front \in BOOLEAN }

\* the cache left by an earlier round, or the initial cache
BatchCaches ==
    {InitCache} \cup
    { ApplyRound(InitCache, CoinGeckoParse(data), MergeItems(EmptyMap, items),
                 1, 1, 1) :
        data \in { x \in CoinGeckoResponses : x.bitcoin.usd /\ ~x.ethereum.present },
        items \in SeqsUpTo(YahooItems, 1) }

InitB ==
    /\ cache \in BatchCaches
    /\ heap = HeapOf(cache)
    /\ held = NoRef
    /\ \E symbols \in SymbolLists : stocks_task = FetchBegin(RefreshArg(symbols))
    /\ crypto_task = [NoTask EXCEPT !.state = "running"]
    /\ cache_lock = "free"
    /\ clock = 1
    /\ pc = "gather"
    /\ round = IF cache = InitCache THEN 1 ELSE 2
    /\ gather_exc = "none"
    /\ orphans = {}
    /\ log = NoEvent
    /\ succeeded = [d \in Domains |-> cache # InitCache]
    /\ resp = NoResp

NextB ==
    \/ CryptoFetchOk
    \/ CryptoFetchFail
    \/ StocksChunkOk
    \/ StocksChunkFail
    \/ GatherReturn
    \/ GatherRaise
    \/ OrphanCryptoDone
    \/ OrphanStocksChunk

BatchSpec == InitB /\ [][NextB]_vars

\* ------------------------------------------------------------ properties
AllowSet == ListSet(ALLOWED_STOCKS)

IsMin(m, a, b) == m <= a /\ m <= b /\ (m = a \/ m = b)

\* the step ends the current refresh_all call other than by cancellation
RoundEnds == pc = "gather" /\ pc' = "interval_sleep"

\* a domain's snapshot is replaced by this round's fetch result
Replaced(d, results) ==
    /\ cache'[d].data = results
    /\ cache'[d].data_round = round
    /\ cache'[d].ts_round = round
    /\ cache'[d].updated_at \in clock..clock'

\* C1: in a refresh round where exactly one fetcher fails and the other
\* succeeds, the succeeded domain's data and updated_at are replaced by the
\* new fetch result and the failed domain's snapshot is unchanged.
C1_PartialFailureApplied ==
    [][ /\ (RoundEnds /\ crypto_task.state = "ok" /\ stocks_task.state = "failed")
            => (Replaced("crypto", crypto_task.results)
                /\ cache'["stocks"] = cache["stocks"])
        /\ (RoundEnds /\ stocks_task.state = "ok" /\ crypto_task.state = "failed")
            => (Replaced("stocks", stocks_task.results)
                /\ cache'["crypto"] = cache["crypto"]) ]_vars

NeverApplied == \A d \in Domains : cache[d].data_round = 0 /\ cache[d].ts_round = 0

RespMapsEmpty ==
    /\ resp.op \in {"get_all_prices", "get_crypto"} => resp.body.crypto = EmptyMap
    /\ resp.op \in {"get_all_prices", "get_stocks"} => resp.body.stocks = EmptyMap

C4_MonotoneZeroOnlyBeforeSuccess ==
    [][ \A d \in Domains :
          /\ cache'[d].updated_at >= cache[d].updated_at
          /\ cache'[d].updated_at # cache[d].updated_at =>
               /\ pc = "gather"
               /\ (IF d = "crypto" THEN crypto_task ELSE stocks_task).state = "ok"
          /\ cache'[d].updated_at = 0 => ~succeeded'[d] ]_vars

\* C5: every response reports, for each domain, a data map and an
\* updated_at written by the same refresh round (round 0 is the initial
\* empty state), whatever the refresher is doing.
C5_NoTornRead ==
    resp.op # "none" =>
        \A d \in DOMAIN resp.body.src :
            resp.body.src[d].data = resp.body.src[d].updated_at

C5_Witness ==
    /\ resp.op = "get_stocks"
    /\ resp.body.src["stocks"].data = 1
    /\ round = 2
    /\ pc = "gather"
    /\ stocks_task.state = "ok"

\* a network call of the current round or of an abandoned fetch is pending
FetchInFlight ==
    \/ crypto_task.state = "running"
    \/ stocks_task.state = "running"
    \/ orphans # {}

\* C6: while a fetch is in flight nobody holds cache_lock, so each query
\* can be served at once from the stored snapshot.
C6_QueriesNeverWaitForFetch ==
    (pc = "gather" \/ FetchInFlight) =>
        /\ cache_lock = "free"
        /\ ENABLED GetAllPrices
        /\ ENABLED GetCrypto
        /\ ENABLED GetStocks
        /\ resp.op = "get_crypto" => resp.body = get_crypto(cache)

C6_Witness ==
    /\ pc = "gather"
    /\ crypto_task.state = "running"
    /\ stocks_task.state = "running"
    /\ resp.op = "get_crypto"
    /\ round = 2
    /\ resp.body.crypto # EmptyMap

\* the task of a domain in the current gather
TaskOf(d) == IF d = "crypto" THEN crypto_task ELSE stocks_task

\* C8: when a domain's fetch fails in a round, the round leaves that
\* domain's snapshot as it was, logs one refresh_error event and returns to
\* the loop (nothing is raised out of refresh_all), and the queries keep
\* being served.
C8_FailureKeepsSnapshot ==
    /\ [][ (pc = "gather" /\ pc' # "gather" /\ pc' # "cancelled"
            /\ \E d \in Domains : TaskOf(d).state = "failed")
           => /\ \A d \in Domains :
                   TaskOf(d).state = "failed" => cache'[d] = cache[d]
              /\ log' = [event |-> "refresh_error", round |-> round,
                         error |-> gather_exc]
              /\ pc' = "interval_sleep" ]_vars
    /\ [](log.event = "refresh_error" =>
            /\ pc = "interval_sleep"
            /\ ENABLED GetAllPrices
            /\ ENABLED GetCrypto
            /\ ENABLED GetStocks)

C8_Witness ==
    /\ log.event = "refresh_error"
    /\ log.round = 2
    /\ cache["stocks"].ts_round = 1
    /\ cache["stocks"].data # EmptyMap

\* the requested symbols of a symbols parameter, uppercase-normalized: the
\* non-blank fields between commas, without surrounding blanks, in uppercase
Fields(text) == ListSet(Split(text))

Requested(text) == { Upper(Strip(f)) : f \in { g \in Fields(text) : Strip(g) # <<>> } }

\* the entries of data whose key is in keys
Restrict(data, keys) == [k \in (DOMAIN data) \cap keys |-> data[k]]

\* C9 as stated: with a symbols parameter, GET /v1/stocks returns exactly
\* the cached stocks entries whose key is a requested symbol (uppercase)
\* that is in the AllowList; without one, exactly the cached entries whose
\* key is in the AllowList.
C9_ExactIntersection ==
    resp.op = "get_stocks" =>
        resp.body.stocks =
            IF resp.symbols.present
            THEN Restrict(cache["stocks"].data, Requested(resp.symbols.text) \cap AllowSet)
            ELSE Restrict(cache["stocks"].data, AllowSet)

\* C9 amended: as C9 for every non-empty symbols parameter; when the
\* parameter is omitted or is the empty string, GET /v1/stocks returns
\* exactly the cached entries whose key is in the AllowList.
C9_ExactIntersectionNonEmpty ==
    resp.op = "get_stocks" =>
        resp.body.stocks =
            IF resp.symbols.present /\ resp.symbols.text # <<>>
            THEN Restrict(cache["stocks"].data, Requested(resp.symbols.text) \cap AllowSet)
            ELSE Restrict(cache["stocks"].data, AllowSet)

C9_Witness ==
    /\ resp.op = "get_stocks"
    /\ resp.symbols = Given(<<"a", ",", "z">>)
    /\ DOMAIN cache["stocks"].data = { <<"A">>, <<"Z">> }
    /\ DOMAIN resp.body.stocks = { <<"A">> }

\* C10: every key of the stocks map of a GET /v1/prices or GET /v1/stocks
\* response is in the AllowList, whatever the provider returned.
C10_OnlyAllowedSymbols ==
    resp.op \in {"get_all_prices", "get_stocks"} =>
        DOMAIN resp.body.stocks \subseteq AllowSet

C10_Witness ==
    /\ resp.op = "get_all_prices"
    /\ <<"Z">> \in DOMAIN cache["stocks"].data
    /\ resp.body.stocks # EmptyMap

\* ------------------------------------------------------------ fairness
\* The event loop resumes a task whose awaited future is done and fires a
\* timer that is due: a gather that has its results or an exception is
\* handed to refresh_all, and a sleep that has elapsed returns.
FairSpec ==
    /\ Spec
    /\ WF_vars(RefresherStartup)
    /\ WF_vars(RefresherTick)
    /\ WF_vars(GatherReturn)
    /\ WF_vars(GatherRaise)

\* C7: a round in which a fetcher failed does not end the loop: unless the
\* task is cancelled, the scheduler goes back to its interval sleep and
\* later starts the next round (rounds below MaxRounds, the last one the
\* model starts).
C7_FailedRoundDoesNotStopLoop ==
    /\ [](log.event = "refresh_error" => pc = "interval_sleep")
    /\ \A r \in 1..(MaxRounds - 1) :
         (round = r /\ pc = "gather" /\ gather_exc # "none")
            ~> (pc = "cancelled" \/ (round = r + 1 /\ pc = "gather"))

C7_Witness ==
    /\ NeverApplied
    /\ round = 2
    /\ pc = "gather"
    /\ crypto_task.state = "running"
    /\ stocks_task.state = "running"

\* ------------------------------------------------------------ fetch_yahoo_quotes
\* the distinct symbols of a list, compared without regard to case
Distinct(symbols) == { Upper(x) : x \in ListSet(symbols) }

CeilDiv(n, k) == (n + k - 1) \div k

RECURSIVE SumLen(_)
SumLen(batches) ==
    IF batches = <<>> THEN 0 ELSE Len(Head(batches)) + SumLen(Tail(batches))

AllSent(batches) == UNION { ListSet(batches[b]) : b \in 1..Len(batches) }

\* dict.update: the entries of over, and those of base under other keys
Overlay(base, over) ==
    [k \in (DOMAIN base) \cup (DOMAIN over) |->
        IF k \in DOMAIN over THEN over[k] ELSE base[k]]

\* the PriceMap one batch response yields on its own
BatchResults == { MergeItems(EmptyMap, items) : items \in YahooResponses }

\* C11: fetch_yahoo_quotes requests the distinct symbols of its input
\* (compared without case, sent in uppercase) in batches of at most 50,
\* each symbol in exactly one batch, ceil(n/50) batches for n distinct
\* symbols once it returns; and the map it builds is the merge of the
\* batch results: each response is laid over what earlier batches gave.
C11_BatchesPartitionDistinctSymbols ==
    /\ [](stocks_task.state # "none" =>
            LET sent == stocks_task.sent
                D == Distinct(stocks_task.symbols)
                n == Cardinality(D)
            IN  /\ \A b \in 1..Len(sent) : Len(sent[b]) \in 1..50
                /\ AllSent(sent) \subseteq D
                /\ SumLen(sent) = Cardinality(AllSent(sent))
                /\ Len(sent) <= CeilDiv(n, 50)
                /\ \A b \in 1..(Len(sent) - 1) : Len(sent[b]) = 50
                /\ stocks_task.state = "ok" =>
                     /\ Len(sent) = CeilDiv(n, 50)
                     /\ AllSent(sent) = D)
    /\ [][ (stocks_task.state = "running" /\ stocks_task'.state \in {"running", "ok"}
            /\ stocks_task' # stocks_task)
           => \E batch \in BatchResults :
                stocks_task'.results = Overlay(stocks_task.results, batch) ]_vars

C11_Witness ==
    /\ stocks_task.state = "ok"
    /\ Len(stocks_task.symbols) = MaxSymbols + MaxDups
    /\ Cardinality(Distinct(stocks_task.symbols)) = MaxSymbols
    /\ Len(stocks_task.sent) = 3
    /\ Len(stocks_task.sent[3]) = MaxSymbols - 2 * ChunkSize
    /\ Cardinality(DOMAIN stocks_task.results) = 3

\* the stocks fetch of the current gather has requested every chunk
AllChunksSent ==
    Len(stocks_task.sent) = CeilDiv(Cardinality(Distinct(stocks_task.symbols)), 50)

\* C12: when a batch of the stocks fetch fails the fetch raises (it does
\* not return, then or later), the round leaves the stocks snapshot as it
\* was, and the stocks snapshot is only ever replaced by the result of a
\* fetch that got all its batches answered.
C12_BatchFailureFailsFetch ==
    /\ [](stocks_task.state = "failed" => (pc = "gather" /\ gather_exc # "none"))
    /\ [][ /\ stocks_task.state = "failed" =>
                /\ stocks_task'.state \in {"failed", "none"}
                /\ cache'["stocks"] = cache["stocks"]
           /\ cache'["stocks"] # cache["stocks"] =>
                /\ stocks_task.state = "ok"
                /\ AllChunksSent
                /\ stocks_task.i >= Len(stocks_task.uniq)
                /\ cache'["stocks"].data = stocks_task.results ]_vars

C12_Witness ==
    /\ stocks_task.state = "failed"
    /\ Cardinality(Distinct(stocks_task.symbols)) = MaxSymbols
    /\ Len(stocks_task.sent) = 2
    /\ stocks_task.results # EmptyMap
    /\ cache["stocks"].data_round = 1
    /\ cache["stocks"].data # stocks_task.results

\* ------------------------------------------------------------ cancellation
\* C13: the refresher task can be cancelled at whichever await it is
\* suspended on; cancelling ends the loop at once, without applying the
\* round whose fetches are pending and without starting another, and at
\* every moment each domain's data and updated_at were stored by the same
\* round.
C13_CancelEndsLoopCacheNotTorn ==
    /\ [](\A d \in Domains : cache[d].data_round = cache[d].ts_round)
    /\ [](pc # "cancelled" => ENABLED on_shutdown)
    /\ [][ (pc # "cancelled" /\ pc' = "cancelled") =>
              /\ cache' = cache
              /\ crypto_task' = NoTask
              /\ stocks_task' = NoTask ]_vars
    /\ [][ pc = "cancelled" =>
              /\ pc' = "cancelled"
              /\ cache' = cache
              /\ round' = round
              /\ crypto_task' = NoTask
              /\ stocks_task' = NoTask ]_vars

C13_Witness ==
    /\ pc = "cancelled"
    /\ log.event = "shutdown"
    /\ log.during = "gather"
    /\ log.in_flight
    /\ round = 2
    /\ \A d \in Domains : cache[d].data_round = 1 /\ cache[d].ts_round = 1

\* ------------------------------------------------------------ rounds
\* the rounds that have a fetch in flight: the round of the current gather
\* and the rounds whose gather raised while a fetch of theirs was running
RoundsFetching ==
    { o.round : o \in orphans } \cup (IF pc = "gather" THEN {round} ELSE {})

\* C14: refresh rounds never overlap: at any time the fetches in flight
\* belong to at most one round, and a round starts only from a sleep of the
\* loop, when no fetch of an earlier round is still running.
C14_RoundsNeverOverlap ==
    /\ Cardinality(RoundsFetching) <= 1
    /\ (pc = "gather" /\ crypto_task.state = "running" /\ stocks_task.state = "running"
        /\ stocks_task.i = 0)
          => \A o \in orphans : o.round = round

\* C15: a gather that has a fetch in flight and no failed fetch ends only
\* by cancellation, and that step logs no refresh_error and ends the loop;
\* a refresh_error is only ever logged for a fetch that raised, and once
\* the task is cancelled no refresh event is logged and no round starts.
C15_CancelIsNotRefreshError ==
    /\ [][ (pc = "gather" /\ Running # {} /\ gather_exc = "none" /\ pc' # "gather") =>
              /\ pc' = "cancelled"
              /\ log'.event = "shutdown" ]_vars
    /\ [][ log'.event = "refresh_error" =>
              /\ pc = "gather"
              /\ gather_exc \in Domains
              /\ TaskOf(gather_exc).state = "failed"
              /\ log'.error = gather_exc ]_vars
    /\ [](pc = "cancelled" => log.event \notin {"refresh_error", "refresh_success"})
    /\ [][ pc = "cancelled" => (pc' = "cancelled" /\ round' = round) ]_vars

C15_Witness ==
    /\ pc = "cancelled"
    /\ log.event = "shutdown"
    /\ log.during = "gather"
    /\ log.in_flight
    /\ log.round = 1
    /\ NeverApplied

\* the fetches of domain d of round r that are in flight
FetchesOf(d, r) ==
    { o \in orphans : o.domain = d /\ o.round = r }
    \cup (IF pc = "gather" /\ round = r /\ TaskOf(d).state = "running"
          THEN {[domain |-> d, round |-> r, i |-> TaskOf(d).i,
                 n |-> Len(TaskOf(d).uniq)]} ELSE {})

\* C16: a fetcher is called only by the step that starts a round, which
\* calls each fetcher once; a fetch that returned or raised is not started
\* again in its round, so after a failure nothing is fetched anew before
\* the loop has slept and started the next round; a fetch left running by
\* a failed round only goes on with the call that round made.
C16_NoRetryWithinRound ==
    /\ [](\A d \in Domains : \A r \in 1..MaxRounds : Cardinality(FetchesOf(d, r)) <= 1)
    /\ [][ \A d \in Domains :
             /\ (TaskOf(d).state = "none" /\ TaskOf(d)'.state # "none") =>
                   /\ pc \in {"startup_sleep", "interval_sleep"}
                   /\ pc' = "gather"
                   /\ round' = round + 1
             /\ TaskOf(d).state \in {"ok", "failed"} =>
                   TaskOf(d)'.state \in {TaskOf(d).state, "none"}
             /\ TaskOf(d).state = "running" => TaskOf(d)'.state # "none" \/ pc' # "gather"
             /\ \A r \in 1..MaxRounds : \A o \in FetchesOf(d, r)' :
                   \/ r = round' /\ round' = round + 1
                   \/ \E p \in FetchesOf(d, r) : p.i <= o.i ]_vars

C16_Witness ==
    /\ log.event = "refresh_error"
    /\ pc = "interval_sleep"
    /\ round = 1
    /\ crypto_task = NoTask
    /\ stocks_task = NoTask
    /\ orphans # {}

\* ------------------------------------------------------------ stored maps
\* C17: a round in which both fetches returned replaces each domain's
\* data by exactly the map its fetcher returned, whatever was stored
\* before: the queries then serve that map (the stocks filtered to the
\* allowed symbols) and no symbol that is only in the previous snapshot.
C17_SuccessReplacesWholesale ==
    [][ log'.event = "refresh_success" =>
          /\ pc = "gather"
          /\ \A d \in Domains :
               /\ cache'[d].data = TaskOf(d).results
               /\ \A k \in DOMAIN cache[d].data \ DOMAIN TaskOf(d).results :
                     k \notin DOMAIN cache'[d].data
          /\ get_crypto(cache').crypto = crypto_task.results
          /\ get_all_prices(cache', clock').crypto = crypto_task.results
          /\ get_all_prices(cache', clock').stocks
               = FilterKeys(stocks_task.results, ALLOWED_STOCKS)
          /\ get_stocks(cache', Omitted).stocks
               = FilterKeys(stocks_task.results, ALLOWED_STOCKS) ]_vars

C17_Witness ==
    /\ log.event = "refresh_success"
    /\ round = 2
    /\ <<"A">> \in log.replaced["stocks"]
    /\ cache["stocks"].data = EmptyMap
    /\ "BTC" \in log.replaced["crypto"]
    /\ "BTC" \notin DOMAIN cache["crypto"].data

\* C18: both domains are always stored by the same round: the two
\* updated_at are zero together, crypto's is never later than stocks',
\* data and updated_at of both domains carry the same round, and a
\* get_all_prices response holds crypto and stocks data of one round.
C18_DomainsRefreshedTogether ==
    /\ cache["crypto"].updated_at = 0 <=> cache["stocks"].updated_at = 0
    /\ cache["crypto"].updated_at <= cache["stocks"].updated_at
    /\ cache["crypto"].data_round = cache["stocks"].data_round
    /\ cache["crypto"].ts_round = cache["stocks"].ts_round
    /\ resp.op = "get_all_prices" =>
         resp.body.src["crypto"].data = resp.body.src["stocks"].data

C18_Witness ==
    /\ resp.op = "get_all_prices"
    /\ resp.body.src["crypto"].data = 2
    /\ resp.body.src["stocks"].data = 2
    /\ cache["crypto"].updated_at < cache["stocks"].updated_at
    /\ resp.body.updated_at = cache["crypto"].updated_at

\* C19: a dict that a response refers to never changes: get_crypto and
\* get_all_prices return the dict stored in cache["crypto"]["data"] itself,
\* every step leaves the contents of every existing dict as they were (a
\* round binds cache to new dicts), so whatever rounds follow, the dict of
\* an earlier response still has the contents it was returned with.
C19_ReturnedMapNeverChanges ==
    /\ [](held # NoRef => (held.obj \in DOMAIN heap /\ heap[held.obj] = held.seen))
    /\ [](\A d \in Domains :
            Ref(cache, d) \in DOMAIN heap /\ heap[Ref(cache, d)] = cache[d].data)
    /\ [][ resp'.op \in {"get_crypto", "get_all_prices"} =>
              /\ held'.obj = Ref(cache, "crypto")
              /\ held'.seen = resp'.body.crypto ]_vars
    /\ [][ \A o \in DOMAIN heap \cap DOMAIN heap' : heap'[o] = heap[o] ]_vars

C19_Witness ==
    /\ held # NoRef
    /\ held.obj = << "crypto", 1 >>
    /\ held.seen # EmptyMap
    /\ cache["crypto"].data_round = 2
    /\ cache["crypto"].data # held.seen
    /\ heap[held.obj] = held.seen

====
